---- MODULE Spec2Model ----
(***************************************************************************)
(* The duplicate scanner of JellyfinDeduplicator                           *)
(* (src/components/Scanner.tsx, src/components/DuplicateItem.tsx, the      *)
(* service layer and src/types.ts) as a state machine.                     *)
(*                                                                         *)
(* Strings are sequences of one-character strings, so that lower-casing,   *)
(* the [^a-z0-9] deletion, key concatenation, substring search and         *)
(* collation are computed and not assumed.  An optional field (JavaScript  *)
(* undefined) is a sequence of length 0, a present one a sequence of       *)
(* length 1 holding the value.                                             *)
(***************************************************************************)
EXTENDS Integers, Sequences, FiniteSets, Bags, TLC

VARIABLES
  libsLoad,         \* the fetchLibraries request of the mount effect
  selectedLibrary,  \* useState: is a library selected
  items,            \* useState<JellyfinItem[]>
  loading,          \* useState(true)
  error,            \* useState: is an error message set
  processingId,     \* useState<string | null>, as an optional id
  searchTerm,       \* useState('')
  server,           \* the catalog held by the media server
  fetchReq,         \* the fetchMovies request in flight, if any
  deleteReqs,       \* the deleteItem requests in flight, a bag
  pc,               \* "ui" for the scanner; "input"/"done" for one evaluation
  groups,           \* duplicateGroups: the local record `groups` after forEach
  duplicates,       \* duplicateGroups: the returned value
  bestId,           \* the value returned by getBestItemId
  stats             \* the render: totalDuplicates and the bytes of wastedSpace

vars == << libsLoad, selectedLibrary, items, loading, error, processingId,
           searchTerm, server, fetchReq, deleteReqs,
           pc, groups, duplicates, bestId, stats >>

uiVars == << libsLoad, selectedLibrary, loading, error, processingId,
             server, fetchReq, deleteReqs >>

(***************************************************************************)
(* Bounds of the model.                                                    *)
(***************************************************************************)
MaxLen == 3        \* longest collection handed to one evaluation
MaxDeletes == 2    \* delete requests in flight at once
MaxList == 4       \* longest collection of the result-list evaluations

(***************************************************************************)
(* Optional values and JavaScript truthiness.                              *)
(***************************************************************************)
Undefined == << >>
Some(v) == << v >>
IsDefined(o) == Len(o) = 1
Val(o) == o[1]

\* `x || 0` on an optional number
OrZero(o) == IF IsDefined(o) /\ Val(o) # 0 THEN Val(o) ELSE 0

\* truthiness of an optional string: defined and not ''
TruthyStr(o) == IsDefined(o) /\ Len(Val(o)) > 0

(***************************************************************************)
(* String primitives.                                                      *)
(***************************************************************************)
UpperCase == {"A", "B", "C", "D", "E", "F", "G", "H", "I", "J", "K", "L", "M",
              "N", "O", "P", "Q", "R", "S", "T", "U", "V", "W", "X", "Y", "Z"}

LowerCase == {"a", "b", "c", "d", "e", "f", "g", "h", "i", "j", "k", "l", "m",
              "n", "o", "p", "q", "r", "s", "t", "u", "v", "w", "x", "y", "z"}

DigitChars == <<"0", "1", "2", "3", "4", "5", "6", "7", "8", "9">>

toLowerCaseChar(c) ==
  CASE c = "A" -> "a" [] c = "B" -> "b" [] c = "C" -> "c" [] c = "D" -> "d"
    [] c = "E" -> "e" [] c = "F" -> "f" [] c = "G" -> "g" [] c = "H" -> "h"
    [] c = "I" -> "i" [] c = "J" -> "j" [] c = "K" -> "k" [] c = "L" -> "l"
    [] c = "M" -> "m" [] c = "N" -> "n" [] c = "O" -> "o" [] c = "P" -> "p"
    [] c = "Q" -> "q" [] c = "R" -> "r" [] c = "S" -> "s" [] c = "T" -> "t"
    [] c = "U" -> "u" [] c = "V" -> "v" [] c = "W" -> "w" [] c = "X" -> "x"
    [] c = "Y" -> "y" [] c = "Z" -> "z" [] OTHER -> c

\* String.prototype.toLowerCase
toLowerCase(s) == [i \in 1..Len(s) |-> toLowerCaseChar(s[i])]

\* the character class [a-z0-9]
IsAZ09(c) == c \in LowerCase \/ c \in {DigitChars[i] : i \in 1..10}

\* s.replace(/[^a-z0-9]/g, '')
RECURSIVE replaceNonAZ09(_)
replaceNonAZ09(s) ==
  IF s = << >> THEN << >>
  ELSE IF IsAZ09(Head(s)) THEN << Head(s) >> \o replaceNonAZ09(Tail(s))
       ELSE replaceNonAZ09(Tail(s))

\* String(n) for an integer n >= 0
RECURSIVE numberToString(_)
numberToString(n) ==
  IF n < 10 THEN << DigitChars[n + 1] >>
  ELSE numberToString(n \div 10) \o << DigitChars[(n % 10) + 1] >>

\* String.prototype.includes
includes(s, sub) ==
  \E i \in 1..(Len(s) - Len(sub) + 1) : SubSeq(s, i, i + Len(sub) - 1) = sub

(***************************************************************************)
(* String.prototype.localeCompare under the root collation: the primary    *)
(* weights (white space, punctuation, digits, letters without case) are    *)
(* compared over the whole strings first, a proper prefix sorting first;   *)
(* strings with equal primary weights are then compared by case, lower     *)
(* case first.                                                             *)
(***************************************************************************)
Letters == <<"a", "b", "c", "d", "e", "f", "g", "h", "i", "j", "k", "l", "m",
             "n", "o", "p", "q", "r", "s", "t", "u", "v", "w", "x", "y", "z">>

primaryWeight(c) ==
  LET l == toLowerCaseChar(c)
  IN IF l \in LowerCase
       THEN 100 + (CHOOSE i \in 1..26 : Letters[i] = l)
     ELSE IF \E i \in 1..10 : DigitChars[i] = l
       THEN 10 + (CHOOSE i \in 1..10 : DigitChars[i] = l)
     ELSE IF l = " " THEN 1
     ELSE IF l = "-" THEN 2
     ELSE 3

tertiaryWeight(c) == IF c \in UpperCase THEN 1 ELSE 0

\* lexicographic comparison of two sequences of integers: -1, 0 or 1
RECURSIVE compareWeights(_, _)
compareWeights(a, b) ==
  IF a = << >> /\ b = << >> THEN 0
  ELSE IF a = << >> THEN -1
  ELSE IF b = << >> THEN 1
  ELSE IF Head(a) < Head(b) THEN -1
  ELSE IF Head(a) > Head(b) THEN 1
  ELSE compareWeights(Tail(a), Tail(b))

localeCompare(a, b) ==
  LET p == compareWeights([i \in 1..Len(a) |-> primaryWeight(a[i])],
                          [i \in 1..Len(b) |-> primaryWeight(b[i])])
  IN IF p # 0 THEN p
     ELSE compareWeights([i \in 1..Len(a) |-> tertiaryWeight(a[i])],
                         [i \in 1..Len(b) |-> tertiaryWeight(b[i])])

(***************************************************************************)
(* duplicateGroups (Scanner.tsx 71-112).                                   *)
(* A JellyfinItem is a record                                              *)
(*   [Id, Name, ProductionYear, ProviderIds, MediaSources]                 *)
(* with Name, ProductionYear, ProviderIds, MediaSources optional values    *)
(* as they arrive in the server's JSON; ProviderIds holds [Tmdb, Imdb],    *)
(* both optional strings.                                                  *)
(***************************************************************************)
TmdbPrefix == <<"t", "m", "d", "b", "-">>
ImdbPrefix == <<"i", "m", "d", "b", "-">>
NamePrefix == <<"n", "a", "m", "e", "-">>
NoYear == <<"0", "0", "0", "0">>

\* reading .Tmdb of an undefined ProviderIds, or .toLowerCase() of an
\* undefined Name, raises a TypeError
keyThrows(item) ==
  \/ ~IsDefined(item.ProviderIds)
  \/ /\ ~TruthyStr(Val(item.ProviderIds).Tmdb)
     /\ ~TruthyStr(Val(item.ProviderIds).Imdb)
     /\ ~IsDefined(item.Name)

\* item.Name.toLowerCase().replace(/[^a-z0-9]/g, '')
normName(item) == replaceNonAZ09(toLowerCase(Val(item.Name)))

\* mutant: the year is interpolated without the `|| '0000'` default
yearTokenNoDefault(item) ==
  IF IsDefined(item.ProductionYear)
    THEN numberToString(Val(item.ProductionYear))
    ELSE <<"u", "n", "d", "e", "f", "i", "n", "e", "d">>

\* `${item.ProductionYear || '0000'}`
yearToken(item) ==
  IF IsDefined(item.ProductionYear) /\ Val(item.ProductionYear) # 0
    THEN numberToString(Val(item.ProductionYear))
    ELSE NoYear

\* mutant: an entry whose normalized name is empty is keyed by its own id
keyOfSkipEmpty(item) ==
  LET ids == Val(item.ProviderIds)
  IN IF TruthyStr(ids.Tmdb) THEN TmdbPrefix \o Val(ids.Tmdb)
     ELSE IF TruthyStr(ids.Imdb) THEN ImdbPrefix \o Val(ids.Imdb)
     ELSE IF normName(item) = << >> THEN <<"i", "d", "-", item.Id>>
     ELSE NamePrefix \o normName(item) \o <<"-">> \o yearToken(item)

\* mutant: the imdb id is tested before the tmdb id
keyOfImdbFirst(item) ==
  LET ids == Val(item.ProviderIds)
  IN IF TruthyStr(ids.Imdb) THEN ImdbPrefix \o Val(ids.Imdb)
     ELSE IF TruthyStr(ids.Tmdb) THEN TmdbPrefix \o Val(ids.Tmdb)
     ELSE NamePrefix \o normName(item) \o <<"-">> \o yearToken(item)

\* mutant: the name key is built without the "-" between name and year
keyOfNoSeparator(item) ==
  LET ids == Val(item.ProviderIds)
  IN IF TruthyStr(ids.Tmdb) THEN TmdbPrefix \o Val(ids.Tmdb)
     ELSE IF TruthyStr(ids.Imdb) THEN ImdbPrefix \o Val(ids.Imdb)
     ELSE NamePrefix \o normName(item) \o yearToken(item)

\* the key of one item (lines 78-86), where keyThrows is false
keyOf(item) ==
  LET ids == Val(item.ProviderIds)
  IN IF TruthyStr(ids.Tmdb) THEN TmdbPrefix \o Val(ids.Tmdb)
     ELSE IF TruthyStr(ids.Imdb) THEN ImdbPrefix \o Val(ids.Imdb)
     ELSE NamePrefix \o normName(item) \o <<"-">> \o yearToken(item)

\* mutant: a new group is created already holding the item, which is then
\* pushed as well
addToGroupsTwice(gs, item) ==
  LET key == keyOf(item)
      withKey == IF \E i \in 1..Len(gs) : gs[i].id = key
                   THEN gs
                   ELSE Append(gs, [id |-> key, title |-> item.Name,
                                    year |-> item.ProductionYear,
                                    items |-> << item >>])
      j == CHOOSE i \in 1..Len(withKey) : withKey[i].id = key
  IN [withKey EXCEPT ![j].items = Append(@, item)]

\* mutant: members are added at the front (unshift) and the group's title
\* and year follow the last member added
addToGroupsFront(gs, item) ==
  LET key == keyOf(item)
      withKey == IF \E i \in 1..Len(gs) : gs[i].id = key
                   THEN gs
                   ELSE Append(gs, [id |-> key, title |-> item.Name,
                                    year |-> item.ProductionYear,
                                    items |-> << >>])
      j == CHOOSE i \in 1..Len(withKey) : withKey[i].id = key
  IN [withKey EXCEPT ![j].items = << item >> \o @,
                     ![j].title = item.Name,
                     ![j].year = item.ProductionYear]

\* lines 88-96: the record `groups`, as the sequence of its values in
\* insertion order of the keys (no key is an integer index)
addToGroups(gs, item) ==
  LET key == keyOf(item)
      withKey == IF \E i \in 1..Len(gs) : gs[i].id = key
                   THEN gs
                   ELSE Append(gs, [id |-> key, title |-> item.Name,
                                    year |-> item.ProductionYear,
                                    items |-> << >>])
      j == CHOOSE i \in 1..Len(withKey) : withKey[i].id = key
  IN [withKey EXCEPT ![j].items = Append(@, item)]

\* items.forEach(...) of lines 74-97
RECURSIVE forEachItem(_, _)
forEachItem(its, gs) ==
  IF its = << >> THEN gs
  ELSE forEachItem(Tail(its), addToGroups(gs, Head(its)))

\* mutant: the test is g.items.length > 0
atLeastOne(g) == Len(g.items) > 0

\* line 100: g => g.items.length > 1
moreThanOne(g) == Len(g.items) > 1

\* mutant: the title is compared without lower-casing it
filterBySearchCaseSensitive(dups, term) ==
  IF Len(term) > 0
    THEN LET lowerSearch == toLowerCase(term)
             matches(g) == includes(Val(g.title), lowerSearch)
         IN SelectSeq(dups, matches)
    ELSE dups

\* lines 103-108 (SelectSeq is Array.prototype.filter)
filterBySearch(dups, term) ==
  IF Len(term) > 0
    THEN LET lowerSearch == toLowerCase(term)
             matches(g) == includes(toLowerCase(Val(g.title)), lowerSearch)
         IN SelectSeq(dups, matches)
    ELSE dups

\* line 111: the comparator handed to sort
byTitle(a, b) == localeCompare(Val(a.title), Val(b.title))

\* Array.prototype.sort, which is stable: each element is placed after the
\* elements that do not compare greater than it
RECURSIVE insertSorted(_, _)
insertSorted(sorted, g) ==
  IF sorted = << >> THEN << g >>
  ELSE IF byTitle(Head(sorted), g) <= 0
         THEN << Head(sorted) >> \o insertSorted(Tail(sorted), g)
         ELSE << g >> \o sorted

RECURSIVE sortByTitle(_, _)
sortByTitle(rest, sorted) ==
  IF rest = << >> THEN sorted
  ELSE sortByTitle(Tail(rest), insertSorted(sorted, Head(rest)))

\* mutant: the sort runs over the filtered groups from the last to the first,
\* so that groups of equal title come out in the opposite order
duplicateGroupsTiesReversed(its, term) ==
  IF \E i \in 1..Len(its) : keyThrows(its[i])
    THEN [threw |-> TRUE, value |-> << >>]
    ELSE LET f == filterBySearch(
                    SelectSeq(forEachItem(its, << >>), moreThanOne), term)
         IN [threw |-> FALSE,
             value |-> sortByTitle([i \in 1..Len(f) |-> f[Len(f) + 1 - i]],
                                   << >>)]

\* the whole memo: [threw, value]; threw models the TypeError escaping it
duplicateGroups(its, term) ==
  IF \E i \in 1..Len(its) : keyThrows(its[i])
    THEN [threw |-> TRUE, value |-> << >>]
    ELSE [threw |-> FALSE,
          value |-> sortByTitle(
                      filterBySearch(
                        SelectSeq(forEachItem(its, << >>), moreThanOne), term),
                      << >>)]

(***************************************************************************)
(* getBestItemId (Scanner.tsx 128-142).  A MediaSource is a record         *)
(* [Size, Bitrate, MediaStreams] with Size and Bitrate optional numbers.   *)
(***************************************************************************)
\* item.MediaSources?.[0]
firstSource(item) ==
  IF IsDefined(item.MediaSources) /\ Len(Val(item.MediaSources)) > 0
    THEN Some(Val(item.MediaSources)[1])
    ELSE Undefined

\* DuplicateItem.tsx 20: mediaSource?.MediaStreams?.find(s => s.Type === 'Video')
videoStream(mediaSource) ==
  LET video == SelectSeq(mediaSource.MediaStreams, LAMBDA st : st.Type = "Video")
  IN IF video = << >> THEN Undefined ELSE Some(Head(video))

\* DuplicateItem.tsx 26-27: the bit rate the card formats as Mbps, before
\* the division and toFixed(1); Undefined where the card shows 'Unknown'
bitrateMbps(item) ==
  LET mediaSource == firstSource(item)
  IN IF ~IsDefined(mediaSource) THEN Undefined
     ELSE IF OrZero(Val(mediaSource).Bitrate) # 0
       THEN Some(Val(Val(mediaSource).Bitrate))
     ELSE IF /\ IsDefined(videoStream(Val(mediaSource)))
             /\ OrZero(Val(videoStream(Val(mediaSource))).BitRate) # 0
       THEN Some(Val(Val(videoStream(Val(mediaSource))).BitRate))
     ELSE Undefined

\* mutant: the ranking takes the bit rate that the card shows
bitrateOfCard(item) == OrZero(bitrateMbps(item))

\* item.MediaSources?.[0]?.Bitrate || 0
bitrateOf(item) ==
  IF IsDefined(firstSource(item)) THEN OrZero(Val(firstSource(item)).Bitrate)
  ELSE 0

\* item.MediaSources?.[0]?.Size || 0
sizeOf(item) ==
  IF IsDefined(firstSource(item)) THEN OrZero(Val(firstSource(item)).Size)
  ELSE 0

\* mutant: the bitrates and sizes are read without `|| 0`; a comparison
\* with undefined is false, undefined === undefined is true
betterNoDefault(prev, current) ==
  LET raw(item, field) ==
        IF IsDefined(firstSource(item))
          THEN (IF field = "Bitrate" THEN Val(firstSource(item)).Bitrate
                ELSE Val(firstSource(item)).Size)
          ELSE Undefined
      gt(a, b) == IsDefined(a) /\ IsDefined(b) /\ Val(a) > Val(b)
  IN IF gt(raw(current, "Bitrate"), raw(prev, "Bitrate")) THEN current
     ELSE IF raw(current, "Bitrate") = raw(prev, "Bitrate")
            THEN IF gt(raw(current, "Size"), raw(prev, "Size"))
                   THEN current ELSE prev
            ELSE prev

\* mutant: on equal bitrate and equal size the later member wins
betterLastWins(prev, current) ==
  IF bitrateOf(current) > bitrateOf(prev) THEN current
  ELSE IF bitrateOf(current) = bitrateOf(prev)
         THEN IF sizeOf(current) >= sizeOf(prev) THEN current ELSE prev
         ELSE prev

\* the reducer of lines 130-140
better(prev, current) ==
  IF bitrateOf(current) > bitrateOf(prev) THEN current
  ELSE IF bitrateOf(current) = bitrateOf(prev)
         THEN IF sizeOf(current) > sizeOf(prev) THEN current ELSE prev
         ELSE prev

RECURSIVE reduceBetter(_, _)
reduceBetter(prev, rest) ==
  IF rest = << >> THEN prev
  ELSE reduceBetter(better(prev, Head(rest)), Tail(rest))

\* reduce without an initial value raises a TypeError on an empty array
getBestItemId(groupItems) ==
  IF groupItems = << >>
    THEN [threw |-> TRUE, value |-> ""]
    ELSE [threw |-> FALSE,
          value |-> reduceBetter(Head(groupItems), Tail(groupItems)).Id]

(***************************************************************************)
(* The render of the result list (Scanner.tsx 353-354): getBestItemId of   *)
(* every group of the memo's value.                                        *)
(***************************************************************************)
\* mutant: the preferred id is computed once, for the first group
bestIdsOfFirst(dups) == [i \in 1..Len(dups) |-> getBestItemId(dups[1].items)]

bestIds(dups) == [i \in 1..Len(dups) |-> getBestItemId(dups[i].items)]

\* line 376: highlight={item.Id === bestId}
highlight(item, best) == item.Id = best

(***************************************************************************)
(* The statistics of the result view (Scanner.tsx 144-154).                *)
(***************************************************************************)
\* mutant: every member of a group is counted
countAllMembers(acc, group) == acc + Len(group.items)

\* mutant: the reducer counts one per group
countGroups(acc, group) == acc + 1

\* line 144: the reducer (acc, group) => acc + group.items.length - 1
countExtras(acc, group) == acc + Len(group.items) - 1

RECURSIVE reduceExtras(_, _)
reduceExtras(acc, rest) ==
  IF rest = << >> THEN acc
  ELSE reduceExtras(countExtras(acc, Head(rest)), Tail(rest))

\* line 144: duplicateGroups.reduce(..., 0)
totalDuplicates(dups) == reduceExtras(0, dups)

\* line 148: group.items.map(i => i.MediaSources?.[0]?.Size || 0)
sizesOf(group) == [m \in 1..Len(group.items) |-> sizeOf(group.items[m])]

\* line 149: sizes.reduce((a, b) => a + b, 0)
RECURSIVE totalGroup(_)
totalGroup(sizes) ==
  IF sizes = << >> THEN 0 ELSE Head(sizes) + totalGroup(Tail(sizes))

\* mutant: the size of the first member is taken for the largest
firstOf(sizes) == sizes[1]

\* line 150: Math.max(...sizes), sizes never being empty in a group
mathMax(sizes) ==
  CHOOSE x \in {sizes[m] : m \in 1..Len(sizes)} :
    \A m \in 1..Len(sizes) : sizes[m] <= x

\* lines 146-152: `total` after the forEach, before the division of 153
RECURSIVE wastedTotal(_, _)
wastedTotal(total, rest) ==
  IF rest = << >> THEN total
  ELSE wastedTotal(total + (totalGroup(sizesOf(Head(rest)))
                              - mathMax(sizesOf(Head(rest)))),
                   Tail(rest))

wastedBytes(dups) == wastedTotal(0, dups)

\* the two figures of the header, for one value of the memo
statsOf(dups) ==
  [totalDuplicates |-> totalDuplicates(dups), wastedBytes |-> wastedBytes(dups)]

(***************************************************************************)
(* Collections handed to one evaluation.  The entries of a collection get  *)
(* the ids m1, m2, ... by position.                                        *)
(***************************************************************************)
ItemIds == <<"m1", "m2", "m3", "m4", "m5", "m6">>

SeqsUpTo(S, n) == UNION {[1..k -> S] : k \in 0..n}

Item(name, year, tmdb, imdb, sources) ==
  [Id |-> "", Name |-> name, ProductionYear |-> year,
   ProviderIds |-> Some([Tmdb |-> tmdb, Imdb |-> imdb]),
   MediaSources |-> sources]

Source(size, bitrate, streams) ==
  [Size |-> size, Bitrate |-> bitrate, MediaStreams |-> streams]

VideoStream(bitRate) == [Type |-> "Video", BitRate |-> bitRate]

withIds(bodies) ==
  [i \in 1..Len(bodies) |-> [bodies[i] EXCEPT !.Id = ItemIds[i]]]

NoSources == Undefined
OneSource == Some(<< Source(Some(10), Some(5000), << >>) >>)

\* entries as types.ts declares them (Name a string, ProviderIds an object)
GroupUniverse ==
  { Item(Some(<<"A", "-", "b">>), Some(7), Some(<<"1">>), Undefined, OneSource),
    Item(Some(<<"b">>), Undefined, Some(<<"1">>), Some(<<"1">>), OneSource),
    Item(Some(<<"a", "b">>), Some(7), Undefined, Some(<<"1">>), OneSource),
    Item(Some(<<"A", "-", "b">>), Some(7), Some(<< >>), Some(<<"1">>), OneSource),
    Item(Some(<<"A", "-", "b">>), Some(7), Undefined, Undefined, OneSource),
    Item(Some(<<"a", "b">>), Some(7), Some(<< >>), Some(<< >>), NoSources),
    Item(Some(<<"a", "b">>), Some(0), Undefined, Undefined, OneSource),
    Item(Some(<<"A", "-", "b">>), Undefined, Undefined, Undefined, OneSource),
    Item(Some(<< >>), Some(0), Undefined, Undefined, OneSource),
    Item(Some(<<"-">>), Undefined, Undefined, Undefined, NoSources),
    Item(Some(<<"b">>), Some(7), Some(<<"2">>), Undefined, OneSource),
    Item(Some(<<"b">>), Some(12), Undefined, Undefined, OneSource),
    Item(Some(<<"b", "1">>), Some(2), Undefined, Undefined, OneSource),
    Item(Some(<<"B">>), Some(12), Undefined, Some(<< >>), OneSource) }

\* entries whose titles the filter strings tell apart
FilterUniverse ==
  { Item(Some(<<"A", "-", "b">>), Some(7), Some(<<"1">>), Undefined, OneSource),
    Item(Some(<<"b">>), Undefined, Some(<<"1">>), Some(<<"1">>), OneSource),
    Item(Some(<<"b">>), Some(12), Undefined, Undefined, OneSource),
    Item(Some(<<"B">>), Some(12), Undefined, Some(<< >>), OneSource),
    Item(Some(<< >>), Some(0), Undefined, Undefined, OneSource),
    Item(Some(<<"-">>), Undefined, Undefined, Undefined, NoSources) }

\* the filter strings typed into the search box
Terms == { << >>, <<"B">>, <<"a", "-">> }

\* the filter strings typed while the scanner runs
ScannerTerms == { << >>, <<"a", "-">> }

\* entries of one group with the shapes MediaSources takes in the JSON
RankSources ==
  { Undefined,
    Some(<< >>),
    Some(<< Source(Some(10), Some(5000), << >>) >>),
    Some(<< Source(Some(5), Some(8000), << >>) >>),
    Some(<< Source(Some(10), Some(8000), << >>) >>),
    Some(<< Source(Some(10), Undefined, << VideoStream(Some(9000)) >>) >>),
    Some(<< Source(Undefined, Some(0), << >>) >>),
    Some(<< Source(Undefined, Some(8000), << >>) >>),
    Some(<< Source(Some(5), Some(5000), << >>),
            Source(Some(20), Some(9000), << >>) >>) }

RankUniverse ==
  { Item(Some(<<"a", "b">>), Some(7), Some(<<"1">>), Undefined, src) :
      src \in RankSources }

\* entries as the JSON can carry them: fields that types.ts declares
\* required (ProviderIds, Name) may be missing as well.  A missing Name is
\* enumerated on entries without ids only, where line 84 reads it; on an
\* entry with an id it would reach the comparator of line 111, whose
\* argument order is left to the engine.
JsonUniverse ==
  { Item(Some(<<"a", "b">>), Undefined, Undefined, Undefined, Undefined),
    Item(Some(<<"A", "-", "b">>), Some(0), Undefined, Undefined,
         Some(<< Source(Undefined, Undefined, << >>) >>)),
    Item(Some(<<"a", "b">>), Some(7), Some(<<"1">>), Undefined, OneSource),
    Item(Some(<<"b">>), Undefined, Some(<<"1">>), Undefined, Undefined),
    Item(Some(<< >>), Some(7), Undefined, Undefined, OneSource),
    Item(Some(<<"-">>), Some(7), Some(<< >>), Some(<< >>), Undefined),
    Item(Undefined, Some(7), Undefined, Undefined, OneSource),
    [Item(Some(<<"a", "b">>), Some(7), Undefined, Undefined, OneSource)
       EXCEPT !.ProviderIds = Undefined] }

\* entries of three keys whose groups differ in title, size and bitrate
ListUniverse ==
  { Item(Some(<<"b">>), Some(7), Some(<<"1">>), Undefined,
         Some(<< Source(Some(10), Some(5000), << >>) >>)),
    Item(Some(<<"A", "-", "b">>), Some(7), Some(<<"1">>), Undefined,
         Some(<< Source(Some(20), Some(8000), << >>) >>)),
    Item(Some(<<"b">>), Some(7), Some(<<"1">>), Undefined,
         Some(<< Source(Some(30), Undefined, << VideoStream(Some(9000)) >>) >>)),
    Item(Some(<<"b">>), Some(12), Some(<<"2">>), Undefined,
         Some(<< Source(Undefined, Some(8000), << >>) >>)),
    Item(Some(<<"B">>), Some(12), Some(<<"2">>), Undefined, NoSources),
    Item(Some(<<"b">>), Some(7), Undefined, Undefined,
         Some(<< Source(Some(5), Some(8000), << >>) >>)) }

\* the filter strings of the result-list evaluations
ListTerms == { << >>, <<"A">> }

(***************************************************************************)
(* One evaluation of the memo and of the render on a given collection.     *)
(***************************************************************************)
uiIdle ==
  /\ libsLoad = "done"
  /\ selectedLibrary = TRUE
  /\ loading = FALSE
  /\ error = FALSE
  /\ processingId = Undefined
  /\ server = << >>
  /\ fetchReq = "none"
  /\ deleteReqs = EmptyBag

NoStats == [totalDuplicates |-> 0, wastedBytes |-> 0]

evalInitUpTo(universe, terms, n) ==
  /\ uiIdle
  /\ items \in {withIds(b) : b \in SeqsUpTo(universe, n)}
  /\ searchTerm \in terms
  /\ pc = "input"
  /\ groups = << >>
  /\ duplicates = [threw |-> FALSE, value |-> << >>]
  /\ bestId = << >>
  /\ stats = NoStats

evalInit(universe, terms) == evalInitUpTo(universe, terms, MaxLen)

\* the memo (71-112) and the render of its value (353-354)
Evaluate ==
  /\ pc = "input"
  /\ pc' = "done"
  /\ duplicates' = duplicateGroups(items, searchTerm)
  /\ groups' = IF duplicates'.threw THEN << >> ELSE forEachItem(items, << >>)
  /\ bestId' = bestIds(duplicates'.value)
  /\ stats' = statsOf(duplicates'.value)
  /\ UNCHANGED << items, searchTerm >>
  /\ UNCHANGED uiVars

\* getBestItemId applied to the collection as one member list
Rank ==
  /\ pc = "input"
  /\ pc' = "done"
  /\ bestId' = << getBestItemId(items) >>
  /\ UNCHANGED << items, searchTerm, groups, duplicates, stats >>
  /\ UNCHANGED uiVars

GroupInit == evalInit(GroupUniverse, {<< >>})
GroupSpec == GroupInit /\ [][Evaluate]_vars

FilterInit == evalInit(FilterUniverse, Terms)
FilterSpec == FilterInit /\ [][Evaluate]_vars

RankInit == evalInit(RankUniverse, {<< >>})
RankSpec == RankInit /\ [][Rank]_vars

JsonInit == evalInit(JsonUniverse, {<< >>})
JsonSpec == JsonInit /\ [][Evaluate]_vars

ListInit == evalInitUpTo(ListUniverse, ListTerms, MaxList)
ListSpec == ListInit /\ [][Evaluate]_vars

(***************************************************************************)
(* The Scanner component and the server behind the service layer.          *)
(***************************************************************************)
CatalogA ==
  << [Item(Some(<<"A", "-", "b">>), Some(7), Some(<<"1">>), Undefined,
           Some(<< Source(Some(10), Some(5000), << >>) >>)) EXCEPT !.Id = "a1"],
     [Item(Some(<<"b">>), Undefined, Some(<<"1">>), Some(<<"1">>),
           Some(<< Source(Some(5), Some(8000), << >>) >>)) EXCEPT !.Id = "a2"],
     [Item(Some(<<"b">>), Some(12), Undefined, Undefined,
           Some(<< Source(Some(20), Undefined, << VideoStream(Some(9000)) >>) >>))
        EXCEPT !.Id = "a3"] >>

CatalogB ==
  << [Item(Some(<<"a", "b">>), Some(0), Undefined, Some(<<"1">>),
           Some(<< Source(Some(10), Some(8000), << >>) >>)) EXCEPT !.Id = "b1"],
     [Item(Some(<<"a", "b">>), Undefined, Some(<< >>), Some(<<"1">>),
           Some(<< Source(Some(30), Some(8000), << >>),
                   Source(Some(40), Some(9000), << >>) >>)) EXCEPT !.Id = "b2"],
     [Item(Some(<<"A", "-", "b">>), Some(7), Undefined, Some(<<"1">>),
           Some(<< Source(Some(20), Some(5000), << >>) >>)) EXCEPT !.Id = "b3"] >>

Catalogs == {CatalogA, CatalogB}

memberIds(g) == {g.items[m].Id : m \in 1..Len(g.items)}

NoRequest == [state |-> "none", body |-> << >>]

Init ==
  /\ libsLoad = "pending"
  /\ selectedLibrary = FALSE
  /\ items = << >>
  /\ loading = TRUE
  /\ error = FALSE
  /\ processingId = Undefined
  /\ searchTerm = << >>
  /\ server \in Catalogs
  /\ fetchReq = NoRequest
  /\ deleteReqs = EmptyBag
  /\ pc = "ui"
  /\ groups = << >>
  /\ duplicates = [threw |-> FALSE, value |-> << >>]
  /\ bestId = << >>
  /\ stats = NoStats

\* which of the four returns of the component renders (157-387)
viewOf(isLoading, hasError, hasLibrary) ==
  IF isLoading THEN "loading"
  ELSE IF hasError THEN "error"
  ELSE IF ~hasLibrary THEN "libraries"
  ELSE "results"

view == viewOf(loading, error, selectedLibrary)

\* the groups handed to the result list
exposedGroups(its, term) == duplicateGroups(its, term).value

\* ids of the DuplicateItem cards that are mounted (353-378)
cardIds(v, its, term) ==
  IF v = "results"
    THEN UNION {memberIds(exposedGroups(its, term)[k]) :
                  k \in 1..Len(exposedGroups(its, term))}
    ELSE {}

\* mutant: the filter keeps the entries with the id (=== for !==)
onlyId(its, itemId) == SelectSeq(its, LAMBDA i : i.Id = itemId)

\* Array.prototype.filter(i => i.Id !== itemId)
withoutId(its, itemId) == SelectSeq(its, LAMBDA i : i.Id # itemId)

evalVars == << pc, groups, duplicates, bestId, stats >>

\* the mount effect (25-38), fetchLibraries answered
LoadLibrariesOk ==
  /\ pc = "ui" /\ libsLoad = "pending"
  /\ libsLoad' = "done"
  /\ loading' = FALSE
  /\ UNCHANGED << selectedLibrary, items, error, processingId, searchTerm,
                  server, fetchReq, deleteReqs, evalVars >>

LoadLibrariesFail ==
  /\ pc = "ui" /\ libsLoad = "pending"
  /\ libsLoad' = "done"
  /\ error' = TRUE
  /\ loading' = FALSE
  /\ UNCHANGED << selectedLibrary, items, processingId, searchTerm,
                  server, fetchReq, deleteReqs, evalVars >>

\* scanLibrary up to its await (41-47)
scanLibraryStart ==
  /\ loading' = TRUE
  /\ error' = FALSE
  /\ fetchReq' = [state |-> "sent", body |-> << >>]

\* a library card is clicked (230); the effect of 57-61 starts the scan
SelectLibrary ==
  /\ pc = "ui" /\ view = "libraries"
  /\ selectedLibrary' = TRUE
  /\ scanLibraryStart
  /\ UNCHANGED << libsLoad, items, processingId, searchTerm, server,
                  deleteReqs, evalVars >>

\* "Rescan Library" (298) or "Scan Again" (347)
Rescan ==
  /\ pc = "ui" /\ view = "results"
  /\ scanLibraryStart
  /\ UNCHANGED << libsLoad, selectedLibrary, items, processingId, searchTerm,
                  server, deleteReqs, evalVars >>

\* the server answers fetchMovies with its catalog, or the request fails
ServerFetch ==
  /\ pc = "ui" /\ fetchReq.state = "sent"
  /\ \/ fetchReq' = [state |-> "ok", body |-> server]
     \/ fetchReq' = [state |-> "failed", body |-> << >>]
  /\ UNCHANGED << libsLoad, selectedLibrary, items, loading, error,
                  processingId, searchTerm, server, deleteReqs,
                  evalVars >>

\* scanLibrary after its await (48, 51-53)
FetchOk ==
  /\ pc = "ui" /\ fetchReq.state = "ok"
  /\ items' = fetchReq.body
  /\ loading' = FALSE
  /\ fetchReq' = NoRequest
  /\ UNCHANGED << libsLoad, selectedLibrary, error, processingId, searchTerm,
                  server, deleteReqs, evalVars >>

\* scanLibrary after its await threw (49-53)
FetchFail ==
  /\ pc = "ui" /\ fetchReq.state = "failed"
  /\ error' = TRUE
  /\ loading' = FALSE
  /\ fetchReq' = NoRequest
  /\ UNCHANGED << libsLoad, selectedLibrary, items, processingId, searchTerm,
                  server, deleteReqs, evalVars >>

\* handleBackToLibraries (63-68), from the result view or the error view
handleBackToLibraries ==
  /\ pc = "ui"
  /\ view = "results" \/ (view = "error" /\ selectedLibrary)
  /\ selectedLibrary' = FALSE
  /\ items' = << >>
  /\ error' = FALSE
  /\ searchTerm' = << >>
  /\ UNCHANGED << libsLoad, loading, processingId, server, fetchReq,
                  deleteReqs, evalVars >>

\* the search box (286-292)
SetSearchTerm ==
  /\ pc = "ui" /\ view = "results"
  /\ \E t \in ScannerTerms :
       /\ t # searchTerm
       /\ searchTerm' = t
  /\ UNCHANGED << libsLoad, selectedLibrary, items, loading, error,
                  processingId, server, fetchReq, deleteReqs, evalVars >>

\* DuplicateItem: "Delete File" (109-112) and then "Confirm" (92-98) on a
\* mounted card, both enabled only while isDeleting is false (375), call
\* handleDelete, which runs up to its await (114-117)
handleDeleteStart ==
  /\ pc = "ui"
  /\ BagCardinality(deleteReqs) < MaxDeletes
  /\ \E id \in cardIds(view, items, searchTerm) :
       /\ processingId # Some(id)
       /\ processingId' = Some(id)
       /\ deleteReqs' = deleteReqs (+) SetToBag({[id |-> id, state |-> "sent"]})
  /\ UNCHANGED << libsLoad, selectedLibrary, items, loading, error,
                  searchTerm, server, fetchReq, evalVars >>

\* the server answers deleteItem: it removes the item, or answers with an
\* error status (always so when it no longer holds the item)
ServerDelete ==
  /\ pc = "ui"
  /\ \E r \in BagToSet(deleteReqs) :
       /\ r.state = "sent"
       /\ \/ /\ \E i \in 1..Len(server) : server[i].Id = r.id
             /\ server' = withoutId(server, r.id)
             /\ deleteReqs' = (deleteReqs (-) SetToBag({r}))
                                (+) SetToBag({[r EXCEPT !.state = "ok"]})
          \/ /\ server' = server
             /\ deleteReqs' = (deleteReqs (-) SetToBag({r}))
                                (+) SetToBag({[r EXCEPT !.state = "failed"]})
  /\ UNCHANGED << libsLoad, selectedLibrary, items, loading, error,
                  processingId, searchTerm, fetchReq, evalVars >>

\* handleDelete after its await (119, 122-124)
handleDeleteOk ==
  /\ pc = "ui"
  /\ \E r \in BagToSet(deleteReqs) :
       /\ r.state = "ok"
       /\ items' = withoutId(items, r.id)
       /\ processingId' = Undefined
       /\ deleteReqs' = deleteReqs (-) SetToBag({r})
  /\ UNCHANGED << libsLoad, selectedLibrary, loading, error, searchTerm,
                  server, fetchReq, evalVars >>

\* handleDelete after its await threw (120-124)
handleDeleteFail ==
  /\ pc = "ui"
  /\ \E r \in BagToSet(deleteReqs) :
       /\ r.state = "failed"
       /\ processingId' = Undefined
       /\ deleteReqs' = deleteReqs (-) SetToBag({r})
  /\ UNCHANGED << libsLoad, selectedLibrary, items, loading, error,
                  searchTerm, server, fetchReq, evalVars >>

Next ==
  \/ LoadLibrariesOk
  \/ LoadLibrariesFail
  \/ SelectLibrary
  \/ Rescan
  \/ ServerFetch
  \/ FetchOk
  \/ FetchFail
  \/ handleBackToLibraries
  \/ SetSearchTerm
  \/ handleDeleteStart
  \/ ServerDelete
  \/ handleDeleteOk
  \/ handleDeleteFail

Spec == Init /\ [][Next]_vars

(***************************************************************************)
(* Vocabulary of the properties.                                           *)
(***************************************************************************)
Done == pc = "done"

Positions == 1..Len(items)

\* positions i and j of the collection lie in one group of gs
together(gs, i, j) ==
  \E k \in 1..Len(gs) : {items[i].Id, items[j].Id} \subseteq memberIds(gs[k])

tmdbOf(item) == Val(item.ProviderIds).Tmdb
imdbOf(item) == Val(item.ProviderIds).Imdb
hasTmdb(item) == IsDefined(tmdbOf(item)) /\ Val(tmdbOf(item)) # << >>
hasImdb(item) == IsDefined(imdbOf(item)) /\ Val(imdbOf(item)) # << >>

\* the title with its letters lower-cased and all but a-z, 0-9 deleted
normalizedTitle(item) ==
  SelectSeq(toLowerCase(Val(item.Name)), IsAZ09)

\* the release year as a number, a missing year counting as 0
yearNumber(item) ==
  IF IsDefined(item.ProductionYear) THEN Val(item.ProductionYear) ELSE 0

(***************************************************************************)
(* C1: any two entries of the collection that carry the same non-empty     *)
(* tmdb id lie in the same group, whatever their titles, years and imdb    *)
(* ids; with no filter that group is exposed.                              *)
(***************************************************************************)
C1_SameTmdbSameGroup ==
  Done =>
    \A i, j \in Positions :
      (/\ hasTmdb(items[i]) /\ hasTmdb(items[j])
       /\ Val(tmdbOf(items[i])) = Val(tmdbOf(items[j])))
      => /\ together(groups, i, j)
         /\ (i # j /\ searchTerm = << >>) => together(duplicates.value, i, j)

C1_Witness ==
  /\ Done
  /\ \E i, j \in Positions :
       /\ i # j
       /\ hasTmdb(items[i]) /\ hasTmdb(items[j])
       /\ Val(tmdbOf(items[i])) = Val(tmdbOf(items[j]))
       /\ normalizedTitle(items[i]) # normalizedTitle(items[j])
       /\ yearNumber(items[i]) # yearNumber(items[j])
       /\ imdbOf(items[i]) # imdbOf(items[j])
       /\ together(duplicates.value, i, j)

(***************************************************************************)
(* C2: two entries that both have no tmdb id and no imdb id lie in the     *)
(* same group if and only if their normalized titles are equal and their   *)
(* release years are equal, a missing year and the year 0 being the same   *)
(* year.                                                                   *)
(***************************************************************************)
C2_NameYearIff ==
  Done =>
    \A i, j \in Positions :
      (/\ ~hasTmdb(items[i]) /\ ~hasImdb(items[i])
       /\ ~hasTmdb(items[j]) /\ ~hasImdb(items[j]))
      => (together(groups, i, j)
            <=> /\ normalizedTitle(items[i]) = normalizedTitle(items[j])
                /\ yearNumber(items[i]) = yearNumber(items[j]))

C2_Witness ==
  /\ Done
  /\ \E i, j \in Positions :
       /\ i # j
       /\ ~hasTmdb(items[i]) /\ ~hasImdb(items[i])
       /\ ~hasTmdb(items[j]) /\ ~hasImdb(items[j])
       /\ items[i].Name # items[j].Name
       /\ items[i].ProductionYear = Some(0)
       /\ items[j].ProductionYear = Undefined
       /\ together(groups, i, j)
  /\ \E i, j \in Positions :
       /\ ~hasTmdb(items[i]) /\ ~hasImdb(items[i])
       /\ ~hasTmdb(items[j]) /\ ~hasImdb(items[j])
       /\ ~together(groups, i, j)

(***************************************************************************)
(* C3: for a non-empty member sequence getBestItemId returns the id of     *)
(* the lowest-index member whose pair (first-source bitrate, first-source  *)
(* size) is the lexicographic maximum; a single member is returned as is.  *)
(***************************************************************************)
pairLess(a, b) ==
  \/ bitrateOf(a) < bitrateOf(b)
  \/ bitrateOf(a) = bitrateOf(b) /\ sizeOf(a) < sizeOf(b)

C3_LowestIndexMaximum ==
  (Done /\ items # << >>) =>
    /\ Len(bestId) = 1
    /\ ~bestId[1].threw
    /\ \E i \in Positions :
         /\ bestId[1].value = items[i].Id
         /\ \A j \in Positions : ~pairLess(items[i], items[j])
         /\ \A j \in 1..(i - 1) : pairLess(items[j], items[i])
    /\ Len(items) = 1 => bestId[1].value = items[1].Id

C3_Witness ==
  /\ Done
  /\ Len(items) = 3
  /\ bitrateOf(items[1]) = 5000 /\ sizeOf(items[1]) = 10
  /\ bitrateOf(items[2]) = 8000 /\ sizeOf(items[2]) = 5
  /\ bitrateOf(items[3]) = 8000 /\ sizeOf(items[3]) = 5
  /\ bestId = << [threw |-> FALSE, value |-> "m2"] >>

(***************************************************************************)
(* C4: in every state of the scanner every exposed group has at least two  *)
(* members, and an entry that is the only one of the collection with its   *)
(* key (as after a delete that left its group with one member) is in no    *)
(* exposed group.                                                          *)
(***************************************************************************)
exposed == exposedGroups(items, searchTerm)

keyMates(item) == {i \in Positions : keyOf(items[i]) = keyOf(item)}

inExposed(id) == \E k \in 1..Len(exposed) : id \in memberIds(exposed[k])

C4_ExposedHaveTwo ==
  /\ \A k \in 1..Len(exposed) : Len(exposed[k].items) >= 2
  /\ \A i \in Positions :
       Cardinality(keyMates(items[i])) = 1 => ~inExposed(items[i].Id)

catalogEntries ==
  UNION {{c[i] : i \in 1..Len(c)} : c \in Catalogs}

C4_Witness ==
  /\ pc = "ui" /\ view = "results"
  /\ \E e \in catalogEntries, i \in Positions :
       /\ \A n \in 1..Len(server) : server[n].Id # e.Id
       /\ \A n \in Positions : items[n].Id # e.Id
       /\ keyOf(e) = keyOf(items[i])
       /\ keyMates(items[i]) = {i}
       /\ ~inExposed(items[i].Id)

(***************************************************************************)
(* C5: the key of an entry is "tmdb-"+id when its tmdb id is non-empty     *)
(* (even with an imdb id), else "imdb-"+id when its imdb id is non-empty,  *)
(* else the "name-" key; two entries lie in one group exactly when these   *)
(* keys are equal, so two entries sharing an imdb id of which only one     *)
(* has a tmdb id are not grouped.                                          *)
(***************************************************************************)
specKey(item) ==
  IF hasTmdb(item) THEN <<"t", "m", "d", "b", "-">> \o Val(tmdbOf(item))
  ELSE IF hasImdb(item) THEN <<"i", "m", "d", "b", "-">> \o Val(imdbOf(item))
  ELSE <<"n", "a", "m", "e", "-">> \o normalizedTitle(item) \o <<"-">>
         \o (IF yearNumber(item) = 0 THEN <<"0", "0", "0", "0">>
             ELSE numberToString(yearNumber(item)))

C5_KeyPriority ==
  Done =>
    /\ \A i \in Positions :
         \E k \in 1..Len(groups) :
           /\ items[i].Id \in memberIds(groups[k])
           /\ groups[k].id = specKey(items[i])
    /\ \A i, j \in Positions :
         together(groups, i, j) <=> specKey(items[i]) = specKey(items[j])
    /\ \A i, j \in Positions :
         (/\ hasImdb(items[i]) /\ hasImdb(items[j])
          /\ Val(imdbOf(items[i])) = Val(imdbOf(items[j]))
          /\ hasTmdb(items[i]) /\ ~hasTmdb(items[j]))
         => ~together(groups, i, j)

C5_Witness ==
  /\ Done
  /\ \E i, j, k \in Positions :
       /\ hasTmdb(items[i]) /\ hasImdb(items[i])
       /\ ~hasTmdb(items[j]) /\ hasImdb(items[j])
       /\ ~hasTmdb(items[k]) /\ hasImdb(items[k])
       /\ IsDefined(tmdbOf(items[k]))
       /\ Val(imdbOf(items[i])) = Val(imdbOf(items[j]))
       /\ Val(imdbOf(items[j])) = Val(imdbOf(items[k]))
       /\ ~together(groups, i, j)
       /\ j # k /\ together(groups, j, k)

(***************************************************************************)
(* C6: the groups built by one pass partition the collection: every entry  *)
(* is a member of exactly one group, exactly once, and no entry appears    *)
(* in two exposed groups or twice in one exposed group.                    *)
(***************************************************************************)
occurrences(gs, id) ==
  UNION {{<<k, m>> : m \in {n \in 1..Len(gs[k].items) : gs[k].items[n].Id = id}} :
           k \in 1..Len(gs)}

C6_Partition ==
  Done =>
    /\ \A i \in Positions :
         /\ Cardinality(occurrences(groups, items[i].Id)) = 1
         /\ \E k \in 1..Len(groups), m \in Positions :
              m <= Len(groups[k].items) /\ groups[k].items[m] = items[i]
         /\ Cardinality(occurrences(duplicates.value, items[i].Id)) <= 1
    /\ \A k \in 1..Len(groups) :
         /\ Len(groups[k].items) >= 1
         /\ \A m \in 1..Len(groups[k].items) :
              \E i \in Positions : groups[k].items[m] = items[i]

C6_Witness ==
  /\ Done
  /\ Len(items) = 3
  /\ Len(groups) = 2
  /\ Len(duplicates.value) = 1
  /\ \E k \in 1..2 : Len(groups[k].items) = 2

(***************************************************************************)
(* C7: within every exposed group the members are in the order of the      *)
(* collection, the group's title and year are those of the first entry of  *)
(* the collection with the group's key, and which entries lie together     *)
(* does not depend on the order of the collection.                         *)
(***************************************************************************)
positionOf(id) == CHOOSE i \in Positions : items[i].Id = id

\* the collection with the entries at positions i and i+1 exchanged
swapped(i) ==
  [p \in Positions |->
     IF p = i THEN items[i + 1] ELSE IF p = i + 1 THEN items[i] ELSE items[p]]

membership(gs) == {memberIds(gs[k]) : k \in 1..Len(gs)}

C7_InsertionOrder ==
  Done =>
    /\ \A k \in 1..Len(duplicates.value) :
         LET g == duplicates.value[k]
             first == positionOf(g.items[1].Id)
         IN /\ \A m, n \in 1..Len(g.items) :
                 m < n => positionOf(g.items[m].Id) < positionOf(g.items[n].Id)
            /\ g.title = items[first].Name
            /\ g.year = items[first].ProductionYear
            /\ \A p \in 1..(first - 1) : specKey(items[p]) # g.id
    /\ \A i \in 1..(Len(items) - 1) :
         /\ membership(forEachItem(swapped(i), << >>)) = membership(groups)
         /\ membership(duplicateGroups(swapped(i), << >>).value)
              = membership(duplicateGroups(items, << >>).value)

C7_Witness ==
  /\ Done
  /\ Len(items) = 3
  /\ \E k \in 1..Len(duplicates.value) :
       LET g == duplicates.value[k]
       IN /\ Len(g.items) = 2
          /\ g.items[1].Id = "m1" /\ g.items[2].Id = "m3"
          /\ g.items[1].Name # g.items[2].Name
          /\ g.items[1].ProductionYear # g.items[2].ProductionYear
          /\ g.title = items[1].Name

(***************************************************************************)
(* C10: with a non-empty filter the exposed groups are exactly the groups  *)
(* of more than one member whose title, the title of the group's first     *)
(* member, contains the filter when both are lower-cased; with the empty   *)
(* filter every group of more than one member is exposed.                  *)
(***************************************************************************)
titleMatches(title, term) ==
  LET t == toLowerCase(title)
      f == toLowerCase(term)
  IN \E i \in 0..Len(t) : i + Len(f) <= Len(t)
       /\ \A n \in 1..Len(f) : t[i + n] = f[n]

C10_TitleFilter ==
  Done =>
    {g.id : g \in {duplicates.value[k] : k \in 1..Len(duplicates.value)}}
      = {g.id : g \in {h \in {groups[k] : k \in 1..Len(groups)} :
                         /\ Len(h.items) > 1
                         /\ \/ searchTerm = << >>
                            \/ titleMatches(Val(h.items[1].Name), searchTerm)}}

C10_Witness ==
  /\ Done
  /\ searchTerm # << >>
  /\ \E k \in 1..Len(groups) :
       /\ Len(groups[k].items) > 1
       /\ ~titleMatches(Val(groups[k].items[1].Name), searchTerm)
       /\ titleMatches(Val(groups[k].items[2].Name), searchTerm)
       /\ ~includes(Val(groups[k].items[2].Name), searchTerm)
       /\ \A d \in 1..Len(duplicates.value) :
            duplicates.value[d].id # groups[k].id

(***************************************************************************)
(* C8 as stated: on entries that have a title, grouping and ranking raise  *)
(* no error, also when the external-id mapping of an entry is absent.      *)
(***************************************************************************)
allTitled == \A i \in Positions : IsDefined(items[i].Name)
allMapped == \A i \in Positions : IsDefined(items[i].ProviderIds)

C8_Original_NeverRaises ==
  (Done /\ allTitled) =>
    /\ ~duplicates.threw
    /\ \A k \in 1..Len(bestId) : ~bestId[k].threw

(***************************************************************************)
(* C8 amended: on entries that have a title, grouping raises an error      *)
(* exactly when some entry has no external-id mapping at all; otherwise    *)
(* grouping and ranking give a defined result, the empty collection gives  *)
(* the empty group list, and an absent year, size or bitrate (or an absent *)
(* or empty source list) gives the result that 0 gives in its place.       *)
(***************************************************************************)
zeroFilled(item) ==
  LET src == IF IsDefined(firstSource(item))
               THEN Val(firstSource(item))
               ELSE Source(Undefined, Undefined, << >>)
  IN [item EXCEPT
        !.ProductionYear = IF IsDefined(@) THEN @ ELSE Some(0),
        !.MediaSources =
           Some(<< [src EXCEPT !.Size = IF IsDefined(@) THEN @ ELSE Some(0),
                               !.Bitrate = IF IsDefined(@) THEN @ ELSE Some(0)] >>)]

C8_DefinedUnlessUnmapped ==
  (Done /\ allTitled) =>
    /\ duplicates.threw <=> ~allMapped
    /\ ~duplicates.threw =>
         LET zeroed == duplicateGroups([i \in Positions |-> zeroFilled(items[i])],
                                       searchTerm).value
         IN /\ items = << >> => duplicates.value = << >>
            /\ Len(bestId) = Len(duplicates.value)
            /\ \A k \in 1..Len(bestId) :
                 /\ ~bestId[k].threw
                 /\ bestId[k].value \in memberIds(duplicates.value[k])
            /\ [k \in 1..Len(zeroed) |-> zeroed[k].id]
                 = [k \in 1..Len(bestId) |-> duplicates.value[k].id]
            /\ membership(zeroed) = membership(duplicates.value)
            /\ bestIds(zeroed) = bestId

C8_Witness ==
  /\ Done
  /\ ~duplicates.threw
  /\ Len(duplicates.value) = 1
  /\ \E i, j \in Positions :
       /\ i < j
       /\ items[i].ProductionYear = Undefined
       /\ items[i].MediaSources = Undefined
       /\ tmdbOf(items[i]) = Undefined /\ imdbOf(items[i]) = Undefined
       /\ IsDefined(firstSource(items[j]))
       /\ Val(firstSource(items[j])).Bitrate = Undefined
       /\ Val(firstSource(items[j])).Size = Undefined
       /\ together(duplicates.value, i, j)
       /\ bestId = << [threw |-> FALSE, value |-> items[i].Id] >>

(***************************************************************************)
(* C9 as stated: an entry with an empty or missing title and no external   *)
(* ids is grouped without error.                                           *)
(***************************************************************************)
C9_Original_MissingTitleGrouped ==
  (Done /\ allMapped) => ~duplicates.threw

(***************************************************************************)
(* C9 amended: an entry with an empty title and no external ids is         *)
(* grouped without error, its title normalizing to the empty string, with  *)
(* every other entry that has an empty title, no external ids and the      *)
(* same release year; an entry with no external ids whose title is         *)
(* missing makes grouping raise an error.                                  *)
(***************************************************************************)
untitled(item) ==
  /\ item.Name = Some(<< >>)
  /\ ~hasTmdb(item) /\ ~hasImdb(item)

C9_EmptyTitleGrouped ==
  (Done /\ allMapped) =>
    /\ duplicates.threw
         <=> \E i \in Positions :
               /\ ~IsDefined(items[i].Name)
               /\ ~hasTmdb(items[i]) /\ ~hasImdb(items[i])
    /\ ~duplicates.threw =>
         \A i, j \in Positions :
           (/\ untitled(items[i]) /\ untitled(items[j])
            /\ yearNumber(items[i]) = yearNumber(items[j]))
           => /\ together(groups, i, j)
              /\ i # j => together(duplicates.value, i, j)
              /\ \E k \in 1..Len(groups) :
                   /\ items[i].Id \in memberIds(groups[k])
                   /\ Len(groups[k].id) >= 6
                   /\ SubSeq(groups[k].id, 1, 6) = <<"n", "a", "m", "e", "-", "-">>

C9_Witness ==
  /\ Done
  /\ ~duplicates.threw
  /\ \E i, j \in Positions :
       /\ i # j
       /\ untitled(items[i]) /\ untitled(items[j])
       /\ together(duplicates.value, i, j)

(***************************************************************************)
(* C11: the exposed group list is in ascending order of title, and two     *)
(* exposed groups of equal title stand in the order in which their keys    *)
(* were first met in the collection; the list holds exactly the groups     *)
(* that passed the filter, each once.                                      *)
(***************************************************************************)
firstSeen(g) ==
  CHOOSE i \in Positions :
    /\ specKey(items[i]) = g.id
    /\ \A p \in 1..(i - 1) : specKey(items[p]) # g.id

passedFilter ==
  {h \in {groups[k] : k \in 1..Len(groups)} :
     /\ Len(h.items) > 1
     /\ \/ searchTerm = << >>
        \/ titleMatches(Val(h.title), searchTerm)}

C11_SortedStable ==
  Done =>
    LET d == duplicates.value
    IN /\ \A k, l \in 1..Len(d) :
            k < l =>
              /\ localeCompare(Val(d[k].title), Val(d[l].title)) <= 0
              /\ localeCompare(Val(d[k].title), Val(d[l].title)) = 0
                   => firstSeen(d[k]) < firstSeen(d[l])
       /\ {d[k] : k \in 1..Len(d)} = passedFilter
       /\ Len(d) = Cardinality(passedFilter)

C11_Witness ==
  /\ Done
  /\ Len(duplicates.value) = 2
  /\ duplicates.value[1].title = duplicates.value[2].title
  /\ duplicates.value[1].id # duplicates.value[2].id
  /\ firstSeen(duplicates.value[1]) = 1
  /\ firstSeen(duplicates.value[2]) = 2

(***************************************************************************)
(* C12: the ranking reads the first media source of each member only.  A   *)
(* member without sources, or whose first source has no bitrate or no      *)
(* size, ranks with 0 in its place, and the preferred id stays the same    *)
(* when every member loses its sources after the first and its video       *)
(* streams; the bit rate of a video stream, which the card shows when the  *)
(* source has none, does not count.                                        *)
(***************************************************************************)
hasSource(item) ==
  IsDefined(item.MediaSources) /\ Val(item.MediaSources) # << >>

rankBitrate(item) ==
  IF hasSource(item) /\ IsDefined(Val(item.MediaSources)[1].Bitrate)
    THEN Val(Val(item.MediaSources)[1].Bitrate) ELSE 0

rankSize(item) ==
  IF hasSource(item) /\ IsDefined(Val(item.MediaSources)[1].Size)
    THEN Val(Val(item.MediaSources)[1].Size) ELSE 0

\* the member with nothing but its first source, the streams removed
primaryOnly(item) ==
  IF hasSource(item)
    THEN [item EXCEPT !.MediaSources =
            Some(<< [Val(item.MediaSources)[1] EXCEPT !.MediaStreams = << >>] >>)]
    ELSE item

C12_FirstSourceOnly ==
  (Done /\ items # << >>) =>
    /\ bestId = << getBestItemId([i \in Positions |-> primaryOnly(items[i])]) >>
    /\ \E i \in Positions :
         /\ bestId[1].value = items[i].Id
         /\ \A j \in Positions :
              \/ rankBitrate(items[j]) < rankBitrate(items[i])
              \/ /\ rankBitrate(items[j]) = rankBitrate(items[i])
                 /\ rankSize(items[j]) <= rankSize(items[i])

C12_Witness ==
  /\ Done
  /\ \E i, j, k \in Positions :
       /\ hasSource(items[i])
       /\ rankBitrate(items[i]) = 0
       /\ bitrateMbps(items[i]) = Some(9000)
       /\ hasSource(items[j])
       /\ Len(Val(items[j].MediaSources)) = 2
       /\ Val(Val(items[j].MediaSources)[2].Bitrate) = 9000
       /\ rankBitrate(items[k]) = 8000
       /\ bestId = << [threw |-> FALSE, value |-> items[k].Id] >>

(***************************************************************************)
(* C13: the byte total of the wasted space, before its conversion to       *)
(* gigabytes, is the sum over the exposed groups of the first-source sizes *)
(* of all members but one member of largest size, an absent size counting  *)
(* as 0; for one group with the sizes 10, 20, 30 it is 30; it is never     *)
(* negative.                                                               *)
(***************************************************************************)
RECURSIVE sumOf(_, _)
sumOf(f, S) ==
  IF S = {} THEN 0
  ELSE LET x == CHOOSE y \in S : TRUE
       IN f[x] + sumOf(f, S \ {x})

\* the pairs <<group, member>> of a group list
slots(d) == UNION {{<<k, m>> : m \in 1..Len(d[k].items)} : k \in 1..Len(d)}

\* one member of largest first-source size in each group
largest(d) ==
  [k \in 1..Len(d) |->
     CHOOSE m \in 1..Len(d[k].items) :
       \A n \in 1..Len(d[k].items) :
         rankSize(d[k].items[n]) <= rankSize(d[k].items[m])]

memberSizes(g) == [m \in 1..Len(g.items) |-> rankSize(g.items[m])]

C13_WastedBytes ==
  Done =>
    LET d == duplicates.value
        spare == {sl \in slots(d) : sl[2] # largest(d)[sl[1]]}
    IN /\ stats.wastedBytes
            = sumOf([sl \in spare |-> rankSize(d[sl[1]].items[sl[2]])], spare)
       /\ stats.wastedBytes >= 0
       /\ (/\ Len(d) = 1
           /\ Len(d[1].items) = 3
           /\ {memberSizes(d[1])[m] : m \in 1..3} = {10, 20, 30})
          => stats.wastedBytes = 30

C13_Witness ==
  /\ Done
  /\ Len(duplicates.value) = 1
  /\ memberSizes(duplicates.value[1]) = <<10, 20, 30>>
  /\ stats.wastedBytes = 30

(***************************************************************************)
(* C14: the total duplicate count is the sum over the exposed groups of    *)
(* the number of members less one, which is the number of entries in       *)
(* exposed groups less the number of exposed groups; it is 0 exactly when  *)
(* no group is exposed.                                                    *)
(***************************************************************************)
C14_DuplicateCount ==
  Done =>
    LET d == duplicates.value
    IN /\ stats.totalDuplicates
            = sumOf([k \in 1..Len(d) |-> Len(d[k].items) - 1], 1..Len(d))
       /\ stats.totalDuplicates
            = Cardinality({i \in Positions :
                             \E k \in 1..Len(d) : items[i].Id \in memberIds(d[k])})
                - Len(d)
       /\ stats.totalDuplicates = 0 <=> d = << >>

C14_Witness ==
  /\ Done
  /\ Len(duplicates.value) = 2
  /\ Len(items) = 4
  /\ stats.totalDuplicates = 2

(***************************************************************************)
(* C15: the step that settles a successful delete of entry X removes       *)
(* exactly the entries with id X from the collection and keeps the others  *)
(* in their order; the step that settles a failed delete leaves the        *)
(* collection as it is; and the collection changes in no step but the      *)
(* settling of a successful delete, the arrival of a scan's result and     *)
(* the return to the library list: computing the groups, the preferred     *)
(* copies and the statistics changes nothing in it.                        *)
(***************************************************************************)
\* request r is settled in this step: it leaves the requests in flight
settles(r) == deleteReqs' = deleteReqs (-) SetToBag({r})

keptInOrder(new, old, id) ==
  LET kept == {i \in 1..Len(old) : old[i].Id # id}
      place(i) == Cardinality({j \in kept : j <= i})
  IN /\ Len(new) = Cardinality(kept)
     /\ \A i \in kept : new[place(i)] = old[i]

C15_DeleteFrame ==
  [][/\ \A r \in BagToSet(deleteReqs) :
          settles(r) =>
            /\ r.state \in {"ok", "failed"}
            /\ r.state = "ok" => keptInOrder(items', items, r.id)
            /\ r.state = "failed" => items' = items
     /\ items' # items =>
          \/ \E r \in BagToSet(deleteReqs) : r.state = "ok" /\ settles(r)
          \/ fetchReq.state = "ok" /\ items' = fetchReq.body
          \/ items' = << >> /\ ~selectedLibrary'
    ]_vars

C15_Witness ==
  /\ pc = "ui" /\ view = "results"
  /\ items = << CatalogB[1], CatalogB[3] >>
  /\ server = items
  /\ deleteReqs = EmptyBag

(***************************************************************************)
(* C16: once a delete of entry X has succeeded on the server and has been  *)
(* applied to the collection, X is a member of no exposed group, also      *)
(* when a rescan was started while the delete was in flight.               *)
(* The server loses an entry only by answering a delete of it with         *)
(* success, and that answer is applied when its request is settled: so     *)
(* the deletes that succeeded and were applied are those of the catalog    *)
(* ids the server holds no more and no answered request waits for.         *)
(***************************************************************************)
onServer(id) == \E n \in 1..Len(server) : server[n].Id = id

deletedAndApplied ==
  {id \in {e.Id : e \in catalogEntries} :
     /\ ~onServer(id)
     /\ \A r \in BagToSet(deleteReqs) : ~(r.id = id /\ r.state = "ok")}

C16_DeletedStaysGone ==
  (pc = "ui" /\ view = "results") =>
    \A id \in deletedAndApplied : ~inExposed(id)

(***************************************************************************)
(* C17: while a delete request for entry X is in flight (from the call of  *)
(* handleDelete until its finally block), processingId is X's id, which    *)
(* disables the controls of X's card; hence at most one delete request     *)
(* per entry is in flight at any time, whatever deletes of other entries   *)
(* run beside it.                                                          *)
(***************************************************************************)
inFlight(id) ==
  CopiesIn([id |-> id, state |-> "sent"], deleteReqs)
    + CopiesIn([id |-> id, state |-> "ok"], deleteReqs)
    + CopiesIn([id |-> id, state |-> "failed"], deleteReqs)

C17_MarkedWhileInFlight ==
  \A id \in {e.Id : e \in catalogEntries} :
    /\ inFlight(id) > 0 => processingId = Some(id)
    /\ inFlight(id) <= 1

(***************************************************************************)
(* C18: with the empty filter, the step that settles a successful delete   *)
(* of a member of an exposed group lowers the total duplicate count by     *)
(* exactly 1: that group loses the member, or is exposed no more when it   *)
(* had two members, and the other groups stay as they are.  The step that  *)
(* settles a successful delete of an entry in no exposed group leaves the  *)
(* exposed groups and the count as they are.                               *)
(***************************************************************************)
groupOf(d, id) == CHOOSE k \in 1..Len(d) : id \in memberIds(d[k])

withoutGroup(d, k) == SelectSeq(d, LAMBDA g : g.id # d[k].id)

C18_DeleteLowersCount ==
  [][\A r \in BagToSet(deleteReqs) :
       (r.state = "ok" /\ settles(r) /\ searchTerm = << >>) =>
         IF inExposed(r.id)
           THEN LET k == groupOf(exposed, r.id)
                IN /\ totalDuplicates(exposed') = totalDuplicates(exposed) - 1
                   /\ withoutGroup(exposed', k) = withoutGroup(exposed, k)
                   /\ IF Len(exposed[k].items) = 2
                        THEN Len(exposed') = Len(exposed) - 1
                        ELSE /\ Len(exposed') = Len(exposed)
                             /\ \E n \in 1..Len(exposed') :
                                  /\ exposed'[n].id = exposed[k].id
                                  /\ keptInOrder(exposed'[n].items,
                                                 exposed[k].items, r.id)
           ELSE /\ exposed' = exposed
                /\ totalDuplicates(exposed') = totalDuplicates(exposed)
    ]_vars

\* the delete of a1 was settled and took the count from 1 to 0; the delete
\* of a2, sent beside it and answered with success, is settled next, a2
\* being in no exposed group
C18_Witness ==
  /\ pc = "ui" /\ view = "results"
  /\ searchTerm = << >>
  /\ items = << CatalogA[2], CatalogA[3] >>
  /\ server = << CatalogA[3] >>
  /\ deleteReqs = SetToBag({[id |-> "a2", state |-> "ok"]})
  /\ ~inExposed("a2")
  /\ totalDuplicates(exposed) = 0

(***************************************************************************)
(* C19: the ids of a collection being unique, exactly one member of every  *)
(* exposed group is highlighted, the member whose id getBestItemId gives   *)
(* for the member list of that group; the same member is highlighted       *)
(* under every filter that exposes the group, and when the collection      *)
(* holds the members of that group only.                                   *)
(***************************************************************************)
uniqueIds == \A i, j \in Positions : items[i].Id = items[j].Id => i = j

highlighted(g, best) ==
  {m \in 1..Len(g.items) : highlight(g.items[m], best)}

\* the preferred ids of the groups with the id of g in a group list
bestOfSame(d, g) ==
  {getBestItemId(d[n].items) : n \in {k \in 1..Len(d) : d[k].id = g.id}}

C19_OneHighlighted ==
  (Done /\ uniqueIds) =>
    LET d == duplicates.value
    IN /\ Len(bestId) = Len(d)
       /\ \A k \in 1..Len(d) :
            /\ ~bestId[k].threw
            /\ Cardinality(highlighted(d[k], bestId[k].value)) = 1
            /\ bestId[k] = getBestItemId(d[k].items)
            /\ \A t \in ListTerms :
                 bestOfSame(duplicateGroups(items, t).value, d[k])
                   \subseteq {bestId[k]}
            /\ bestOfSame(duplicateGroups(d[k].items, << >>).value, d[k])
                 = {bestId[k]}

C19_Witness ==
  /\ Done
  /\ uniqueIds
  /\ Len(duplicates.value) = 2
  /\ highlighted(duplicates.value[1], bestId[1].value) = {2}
  /\ highlighted(duplicates.value[2], bestId[2].value) = {1}

====
